---- MODULE Spec2Model ----
(***************************************************************************)
(* Ingestion pipeline of football-analysis-backend: the entity resolver    *)
(* and upsert engine (Backend/etl/partidos.py) against the normalized      *)
(* store (Supabase tables), one action per call of upsert_partidos.        *)
(***************************************************************************)
EXTENDS Integers, Sequences, FiniteSets, TLC

\* ------------------------------------------------------------------ bounds
MaxBatch == 3        \* longest batch handed to upsert_partidos
MaxCalls == 2        \* calls of upsert_partidos in one behaviour (a re-run not counted)
WriteChunk == 2      \* rows per write round-trip; 100 in partidos.py:380,385, scaled down
LinksChunk == 2      \* links per existence lookup; 400 in partidos.py:180, scaled down

\* ------------------------------------------------------------- values
None == "None"       \* Python None, where a string is expected
NoInt == -1          \* Python None, where an int is expected (goals, optional ids)
NoFecha == [day |-> 0, month |-> 0, year |-> 0, hour |-> 0, minute |-> 0]  \* no date text
Missing == ""        \* an empty string: falsy, like None, in the "not x" tests

\* str.lower().strip().replace(" ", "-") on the names that occur
Slugify(nombre) ==
    CASE nombre = "Liga A"   -> "liga-a"
      [] nombre = "Team A"   -> "team-a"
      [] nombre = "Team B"   -> "team-b"
      [] nombre = "Final"    -> "final"
      [] nombre = "Round 1"  -> "round-1"
      [] OTHER               -> nombre

\* the records a scraper run can hand over (fields of PartidoScraped)
Partido(link, pais_slug, liga, gl, gv, fase, jornada, especial, scraped_at) ==
    [link |-> link, pais |-> "Colombia", pais_slug |-> pais_slug, liga |-> liga,
     temporada |-> "2024/2025", fase |-> fase, jornada |-> jornada,
     fecha_raw |-> NoFecha, local |-> "Team A", visitante |-> "Team B",
     goles_local |-> gl, goles_visitante |-> gv, especial |-> especial,
     scraped_at |-> scraped_at]

Scraped ==
    { Partido("L1", "colombia", "Liga A", NoInt, NoInt, None, None, None, 1),
      Partido("L1", "colombia", "Liga A", 1, 0, None, None, None, 1),
      Partido("L1", "colombia", "Liga A", 2, 1, None, None, None, 2),
      Partido("L2", "colombia", "Liga A", 0, 0, "Final", "Round 1", "Pen", 1),
      Partido(Missing, "colombia", "Liga A", 1, 0, None, None, None, 1),
      Partido("L2", "colombia", Missing, 1, 0, None, None, None, 1),
      Partido("L2", Missing, Missing, 1, 0, None, None, None, 1) }

RECURSIVE SeqsUpTo(_, _)
SeqsUpTo(S, n) ==
    IF n = 0 THEN { <<>> }
    ELSE LET shorter == SeqsUpTo(S, n - 1)
         IN  shorter \cup { Append(s, x) : s \in { t \in shorter : Len(t) = n - 1 }, x \in S }

Batches == SeqsUpTo(Scraped, MaxBatch)

\* ------------------------------------------------------------- the store
Tables == {"paises", "ligas", "temporadas", "equipos", "estados",
           "fase", "jornada", "especial", "partidos"}

EmptyStore == [t \in Tables |-> <<>>]

\* table.select(...).eq(f, v)...limit(1): the rows matching every filter
Select(rows, flt) ==
    SelectSeq(rows, LAMBDA r : \A f \in DOMAIN flt : r[f] = flt[f])

\* exception classes: EnvironmentError is an alias of OSError
IsEnvironmentError(exc) == exc \in {"EnvironmentError", "ConnectionError"}

NoFault == [at |-> 0, kind |-> None]
\* a store round-trip that fails: the at-th operation of the call raises kind
FaultKinds == {"ConnectionError", "ConnectError"}


\* ------------------------------------------------- temporal normalizer
NowYear == 2026      \* datetime.now(timezone.utc).year, the fallback year

\* the two regular expressions of _infer_year_from_temporada on the labels that occur
TemporadaYears(temporada) ==
    CASE temporada = "2024/2025" -> [start_year |-> 2024, end_raw |-> 2025, end_len |-> 4]
      [] temporada = "2024/25"   -> [start_year |-> 2024, end_raw |-> 25, end_len |-> 2]
      [] temporada = "1999/00"   -> [start_year |-> 1999, end_raw |-> 0, end_len |-> 2]
      [] temporada = "2025"      -> [start_year |-> 2025, end_raw |-> NoInt, end_len |-> 0]
      [] OTHER                   -> [start_year |-> NoInt, end_raw |-> NoInt, end_len |-> 0]

\* the inference, were July still a month of the second year
_infer_year_from_temporada_JulySecond(month, temporada, fallback_year) ==
    IF temporada = None \/ temporada = Missing THEN fallback_year
    ELSE LET y == TemporadaYears(temporada) IN
         IF y.start_year # NoInt /\ y.end_raw # NoInt
         THEN LET expanded == (y.start_year \div 100) * 100 + y.end_raw
                  end_year == IF y.end_len = 2
                              THEN (IF expanded < y.start_year THEN expanded + 100 ELSE expanded)
                              ELSE y.end_raw
              IN  IF month > 7 THEN y.start_year ELSE end_year
         ELSE IF y.start_year # NoInt THEN y.start_year
         ELSE fallback_year

_infer_year_from_temporada(month, temporada, fallback_year) ==
    IF temporada = None \/ temporada = Missing THEN fallback_year
    ELSE LET y == TemporadaYears(temporada) IN
         IF y.start_year # NoInt /\ y.end_raw # NoInt
         THEN LET expanded == (y.start_year \div 100) * 100 + y.end_raw
                  end_year == IF y.end_len = 2
                              THEN (IF expanded < y.start_year THEN expanded + 100 ELSE expanded)
                              ELSE y.end_raw
              IN  IF month >= 7 THEN y.start_year ELSE end_year
         ELSE IF y.start_year # NoInt THEN y.start_year
         ELSE fallback_year

DaysIn(year, month) ==
    IF month \in {4, 6, 9, 11} THEN 30
    ELSE IF month = 2
         THEN (IF (year % 4 = 0 /\ year % 100 # 0) \/ year % 400 = 0 THEN 29 ELSE 28)
         ELSE 31

\* a date text "DD.MM.[YYYY] HH:MM" is the record of its numeric parts, year 0 when absent;
\* the result is the UTC timestamp, the empty tuple for None
parse_flashscore_fecha(fecha_raw, temporada) ==
    IF fecha_raw = NoFecha THEN <<>>
    ELSE LET year == IF fecha_raw.year # 0 THEN fecha_raw.year
                     ELSE _infer_year_from_temporada(fecha_raw.month, temporada, NowYear)
         IN  IF /\ fecha_raw.month \in 1..12
                /\ fecha_raw.day \in 1..DaysIn(year, fecha_raw.month)
                /\ fecha_raw.hour \in 0..23 /\ fecha_raw.minute \in 0..59
             THEN <<year, fecha_raw.month, fecha_raw.day, fecha_raw.hour, fecha_raw.minute, 0>>
             ELSE <<>>


\* ------------------------------------------------------ upsert_partidos
\* The call is a frame f that its statements pass along: the store as the call sees
\* it, the count n of round-trips made, the local variables, the exception in flight.
NoCache == [t \in Tables \ {"partidos"} |-> <<>>]

Frame(db, fault) ==
    [db |-> db, n |-> 0, fault |-> fault, cache |-> NoCache, exc |-> None,
     returned |-> FALSE, valid_partidos |-> <<>>, existing_links |-> {},
     rows_insert |-> <<>>, rows_upsert |-> <<>>, dispo |-> <<>>,
     insertados |-> 0, actualizados |-> 0]

\* one round-trip to the store, and whether it is the one that fails
Execute(f) == [f EXCEPT !.n = @ + 1]
Failed(f) == f.fault.at = f.n
Raise(f, exc) == [f EXCEPT !.exc = exc]

\* the outcome of a get_*_id closure: the frame after it, and the id or the failure
Got(f, id) == [c |-> f, ok |-> TRUE, id |-> id]
Thrown(f) == [c |-> f, ok |-> FALSE, id |-> NoInt]
Memo(f, t, key, id) == Got([f EXCEPT !.cache[t] = (key :> id) @@ @], id)

\* the shape shared by get_pais_id .. get_especial_id:
\* memo hit, else select by natural key, else insert and take the new id
CreateRow(f, t, key, newrow) ==
    IF Failed(f) THEN Thrown(f)
    ELSE Memo([f EXCEPT !.db[t] = Append(@, [id |-> Len(@) + 1] @@ newrow)],
              t, key, Len(f.db[t]) + 1)

SelectRow(f, t, key, flt, newrow) ==
    IF Failed(f) THEN Thrown(f)
    ELSE IF Select(f.db[t], flt) # <<>> THEN Memo(f, t, key, Select(f.db[t], flt)[1].id)
    ELSE CreateRow(Execute(f), t, key, newrow)

\* the closures, were the memo never consulted
GetOrCreate_NoMemo(f, t, key, flt, newrow) ==
    SelectRow(Execute(f), t, key, flt, newrow)

GetOrCreate(f, t, key, flt, newrow) ==
    IF key \in DOMAIN f.cache[t] THEN Got(f, f.cache[t][key])
    ELSE SelectRow(Execute(f), t, key, flt, newrow)

get_pais_id(f, pais_slug, pais_nombre) ==
    GetOrCreate(f, "paises", pais_slug, [slug_flashscore |-> pais_slug],
                [nombre |-> pais_nombre, slug_flashscore |-> pais_slug])

LigaRow(pais_id, liga_slug, liga_nombre) ==
    [pais_id |-> pais_id, slug_flashscore |-> liga_slug, nombre_display |-> liga_nombre]

get_liga_id(f, pais_id, liga_nombre) ==
    GetOrCreate(f, "ligas", <<pais_id, Slugify(liga_nombre)>>,
                [slug_flashscore |-> Slugify(liga_nombre), pais_id |-> pais_id],
                LigaRow(pais_id, Slugify(liga_nombre), liga_nombre))

\* "Y1/Y2" -> anual, July 1 of Y1 .. June 30 of Y2; "Y" -> calendario
TemporadaFechas(temporada_nombre) ==
    CASE temporada_nombre = "2024/2025" ->
             [tipo |-> "anual", fecha_inicio |-> "2024-07-01", fecha_fin |-> "2025-06-30"]
      [] OTHER ->
             [tipo |-> "calendario", fecha_inicio |-> <<temporada_nombre, "-01-01">>,
              fecha_fin |-> <<temporada_nombre, "-12-31">>]

get_temporada_id(f, liga_id, temporada_nombre) ==
    GetOrCreate(f, "temporadas", <<liga_id, temporada_nombre>>,
                [nombre_flashscore |-> temporada_nombre, liga_id |-> liga_id],
                [liga_id |-> liga_id, nombre_flashscore |-> temporada_nombre,
                 nombre_display |-> temporada_nombre] @@ TemporadaFechas(temporada_nombre))

get_equipo_id(f, nombre_equipo) ==
    GetOrCreate(f, "equipos", Slugify(nombre_equipo),
                [slug_flashscore |-> Slugify(nombre_equipo)],
                [nombre |-> nombre_equipo, slug_flashscore |-> Slugify(nombre_equipo)])

get_estado_id(f, nombre) ==
    GetOrCreate(f, "estados", nombre, [nombre |-> nombre], [nombre |-> nombre])

ScopedRow(temporada_id, nombre, slug) ==
    [temporada_id |-> temporada_id, nombre |-> nombre, slug_flashscore |-> slug]

get_fase_id(f, temporada_id, fase_nombre) ==
    IF fase_nombre = None THEN Got(f, NoInt)
    ELSE GetOrCreate(f, "fase", <<temporada_id, Slugify(fase_nombre)>>,
                     [slug_flashscore |-> Slugify(fase_nombre), temporada_id |-> temporada_id],
                     ScopedRow(temporada_id, fase_nombre, Slugify(fase_nombre)))

get_jornada_id(f, temporada_id, jornada_nombre) ==
    IF jornada_nombre = None THEN Got(f, NoInt)
    ELSE GetOrCreate(f, "jornada", <<temporada_id, Slugify(jornada_nombre)>>,
                     [slug_flashscore |-> Slugify(jornada_nombre), temporada_id |-> temporada_id],
                     ScopedRow(temporada_id, jornada_nombre, Slugify(jornada_nombre)))

get_especial_id(f, especial_nombre) ==
    IF especial_nombre = None THEN Got(f, NoInt)
    ELSE GetOrCreate(f, "especial", especial_nombre, [nombre |-> especial_nombre],
                     [nombre |-> especial_nombre])

get_supabase_client(creds) == IF creds THEN None ELSE "EnvironmentError"

\* the generator, were the rest of the sequence not handed over after the loop
RECURSIVE ChunkLoop_DropsRest(_, _, _, _)
ChunkLoop_DropsRest(seq, size, buf, out) ==
    IF seq = <<>> THEN out
    ELSE IF Len(buf) + 1 >= size
         THEN ChunkLoop_DropsRest(Tail(seq), size, <<>>, Append(out, Append(buf, Head(seq))))
         ELSE ChunkLoop_DropsRest(Tail(seq), size, Append(buf, Head(seq)), out)

RECURSIVE ChunkLoop(_, _, _, _)
ChunkLoop(seq, size, buf, out) ==
    IF seq = <<>> THEN (IF buf # <<>> THEN Append(out, buf) ELSE out)
    ELSE IF Len(buf) + 1 >= size
         THEN ChunkLoop(Tail(seq), size, <<>>, Append(out, Append(buf, Head(seq))))
         ELSE ChunkLoop(Tail(seq), size, Append(buf, Head(seq)), out)

_chunked(seq, size) == ChunkLoop(seq, size, <<>>, <<>>)

IsValid(partido) ==
    /\ partido.link # Missing /\ partido.pais_slug # Missing
    /\ partido.liga # Missing /\ partido.temporada # Missing
    /\ partido.local # Missing /\ partido.visitante # Missing

\* the validation loop, were a missing pais_slug one more reason to leave the record out
RECURSIVE Validate_SkipNoSlug(_, _)
Validate_SkipNoSlug(partidos, valid_partidos) ==
    IF partidos = <<>> THEN [exc |-> None, valid_partidos |-> valid_partidos]
    ELSE IF IsValid(Head(partidos))
         THEN Validate_SkipNoSlug(Tail(partidos), Append(valid_partidos, Head(partidos)))
         ELSE Validate_SkipNoSlug(Tail(partidos), valid_partidos)

\* the validation loop: a record without link or with incomplete data is left out,
\* a record with a link and without pais_slug raises ValueError
RECURSIVE Validate(_, _)
Validate(partidos, valid_partidos) ==
    IF partidos = <<>> THEN [exc |-> None, valid_partidos |-> valid_partidos]
    ELSE IF Head(partidos).link = Missing THEN Validate(Tail(partidos), valid_partidos)
    ELSE IF Head(partidos).pais_slug = Missing
         THEN [exc |-> "ValueError", valid_partidos |-> valid_partidos]
    ELSE IF \/ Head(partidos).liga = Missing \/ Head(partidos).temporada = Missing
            \/ Head(partidos).local = Missing \/ Head(partidos).visitante = Missing
         THEN Validate(Tail(partidos), valid_partidos)
    ELSE Validate(Tail(partidos), Append(valid_partidos, Head(partidos)))

\* the statements of the call, each skipped once an exception is in flight or the
\* call has returned
Live(f) == f.exc = None /\ ~f.returned

CreateClient(f, creds) ==
    IF get_supabase_client(creds) # None THEN Raise(f, get_supabase_client(creds)) ELSE f

Validated(f, v) ==
    [f EXCEPT !.exc = v.exc, !.valid_partidos = v.valid_partidos,
              !.returned = (v.exc = None /\ v.valid_partidos = <<>>)]

ValidateAll(f, partidos) ==
    IF Live(f) THEN Validated(f, Validate(partidos, <<>>)) ELSE f

\* "Pre-cargar estados si existen"
PreloadEstado(f, nombre) ==
    IF Failed(f) THEN Raise(f, f.fault.kind)
    ELSE IF Select(f.db.estados, [nombre |-> nombre]) # <<>>
         THEN Memo(f, "estados", nombre, Select(f.db.estados, [nombre |-> nombre])[1].id).c
    ELSE f

RECURSIVE PreloadEstados(_, _)
PreloadEstados(f, nombres) ==
    IF nombres = <<>> \/ ~Live(f) THEN f
    ELSE PreloadEstados(PreloadEstado(Execute(f), Head(nombres)), Tail(nombres))

StoredLinks(db) == { db.partidos[i].link : i \in 1..Len(db.partidos) }
Range(seq) == { seq[i] : i \in 1..Len(seq) }

\* "Detectar links existentes en batch"
DetectChunk(f, chunk) ==
    IF Failed(f) THEN Raise(f, f.fault.kind)
    ELSE [f EXCEPT !.existing_links = @ \cup (Range(chunk) \cap StoredLinks(f.db))]

RECURSIVE DetectChunks(_, _)
DetectChunks(f, chunks) ==
    IF chunks = <<>> \/ ~Live(f) THEN f
    ELSE DetectChunks(DetectChunk(Execute(f), Head(chunks)), Tail(chunks))

LinksOf(partidos) == [i \in 1..Len(partidos) |-> partidos[i].link]

DetectExisting(f) ==
    IF Live(f) THEN DetectChunks(f, _chunked(LinksOf(f.valid_partidos), LinksChunk)) ELSE f

is_final(partido) == partido.goles_local # NoInt /\ partido.goles_visitante # NoInt

EstadoNombre(partido) == IF is_final(partido) THEN "Finalizado" ELSE "Programado"

\* the try block of the per-record loop: a is the record in preparation, the ids
\* resolved so far and the frame; a failed step leaves the rest of the block undone
Preparing(f, partido) ==
    [c |-> f, ok |-> TRUE, partido |-> partido, pais_id |-> NoInt, liga_id |-> NoInt,
     temporada_id |-> NoInt, local_id |-> NoInt, visitante_id |-> NoInt,
     estado_id |-> NoInt, fase_id |-> NoInt, jornada_id |-> NoInt, especial_id |-> NoInt]

Bind(a, var, got) ==
    IF got.ok THEN [a EXCEPT !.c = got.c, ![var] = got.id]
    ELSE [a EXCEPT !.c = got.c, !.ok = FALSE]

ResolvePais(a) ==
    IF a.ok THEN Bind(a, "pais_id", get_pais_id(a.c, a.partido.pais_slug, a.partido.pais))
    ELSE a
ResolveLiga(a) ==
    IF a.ok THEN Bind(a, "liga_id", get_liga_id(a.c, a.pais_id, a.partido.liga)) ELSE a
ResolveTemporada(a) ==
    IF a.ok THEN Bind(a, "temporada_id", get_temporada_id(a.c, a.liga_id, a.partido.temporada))
    ELSE a
ResolveLocal(a) ==
    IF a.ok THEN Bind(a, "local_id", get_equipo_id(a.c, a.partido.local)) ELSE a
ResolveVisitante(a) ==
    IF a.ok THEN Bind(a, "visitante_id", get_equipo_id(a.c, a.partido.visitante)) ELSE a
ResolveEstado(a) ==
    IF a.ok THEN Bind(a, "estado_id", get_estado_id(a.c, EstadoNombre(a.partido))) ELSE a
ResolveFase(a) ==
    IF a.ok THEN Bind(a, "fase_id", get_fase_id(a.c, a.temporada_id, a.partido.fase)) ELSE a
ResolveJornada(a) ==
    IF a.ok THEN Bind(a, "jornada_id", get_jornada_id(a.c, a.temporada_id, a.partido.jornada))
    ELSE a
ResolveEspecial(a) ==
    IF a.ok THEN Bind(a, "especial_id", get_especial_id(a.c, a.partido.especial)) ELSE a

\* the cascade, were the league resolved before its country
Resolve_LigaFirst(f, partido) ==
    ResolveEspecial(ResolveJornada(ResolveFase(ResolveEstado(ResolveVisitante(
        ResolveLocal(ResolveTemporada(ResolvePais(ResolveLiga(Preparing(f, partido))))))))))

Resolve(f, partido) ==
    ResolveEspecial(ResolveJornada(ResolveFase(ResolveEstado(ResolveVisitante(
        ResolveLocal(ResolveTemporada(ResolveLiga(ResolvePais(Preparing(f, partido))))))))))

Row(a) ==
    [temporada_id |-> a.temporada_id, estado_id |-> a.estado_id,
     especial_id |-> a.especial_id, fase_id |-> a.fase_id, jornada_id |-> a.jornada_id,
     link |-> a.partido.link, equipo_local_id |-> a.local_id,
     equipo_visitante_id |-> a.visitante_id, fecha_raw |-> a.partido.fecha_raw,
     fecha_partido |-> parse_flashscore_fecha(a.partido.fecha_raw, a.partido.temporada),
     goles_local |-> a.partido.goles_local, goles_visitante |-> a.partido.goles_visitante,
     scraped_at |-> a.partido.scraped_at]

\* the loop without its no-clobber test
Disposition_NoSkip(exists, final) ==
    IF exists THEN "upsert" ELSE "insert"

\* what the loop does with one prepared record
Disposition(exists, final) ==
    IF exists /\ ~final THEN "skip"
    ELSE IF exists THEN "upsert"
    ELSE "insert"

\* the end of one turn of the loop; dispo keeps, per valid record, the branch taken
Schedule(f, row, d) ==
    [f EXCEPT !.rows_insert = IF d = "insert" THEN Append(@, row) ELSE @,
              !.rows_upsert = IF d = "upsert" THEN Append(@, row) ELSE @,
              !.dispo = Append(@, d)]

\* the loop, were a record that fails not caught by the try block around it
Prepare_Uncaught(a) ==
    IF a.ok
    THEN Schedule(a.c, Row(a),
                  Disposition(a.partido.link \in a.c.existing_links, is_final(a.partido)))
    ELSE Raise([a.c EXCEPT !.dispo = Append(@, "error")], a.c.fault.kind)

Prepare(a) ==
    IF a.ok
    THEN Schedule(a.c, Row(a),
                  Disposition(a.partido.link \in a.c.existing_links, is_final(a.partido)))
    ELSE [a.c EXCEPT !.dispo = Append(@, "error")]

RECURSIVE PrepareLoop(_, _)
PrepareLoop(f, valid_partidos) ==
    IF valid_partidos = <<>> THEN f
    ELSE PrepareLoop(Prepare(Resolve(f, Head(valid_partidos))), Tail(valid_partidos))

PrepareAll(f) == IF Live(f) THEN PrepareLoop(f, f.valid_partidos) ELSE f

\* the insert, were link not a unique column of partidos
ViolatesUnique_Never(db, chunk) == FALSE

\* partidos.link is unique in the store: an insert that would repeat a link is rejected whole
ViolatesUnique(db, chunk) ==
    \/ \E i \in 1..Len(chunk) : chunk[i].link \in StoredLinks(db)
    \/ \E i, j \in 1..Len(chunk) : i # j /\ chunk[i].link = chunk[j].link

RECURSIVE InsertRows(_, _)
InsertRows(rows, chunk) ==
    IF chunk = <<>> THEN rows
    ELSE InsertRows(Append(rows, [id |-> Len(rows) + 1] @@ Head(chunk)), Tail(chunk))

\* upsert(rows, on_conflict="link"): the row with that link takes the new values, else insert
UpsertRow(rows, row) ==
    IF \E i \in 1..Len(rows) : rows[i].link = row.link
    THEN [i \in 1..Len(rows) |->
             IF rows[i].link = row.link THEN [id |-> rows[i].id] @@ row ELSE rows[i]]
    ELSE Append(rows, [id |-> Len(rows) + 1] @@ row)

RECURSIVE UpsertRows(_, _)
UpsertRows(rows, chunk) ==
    IF chunk = <<>> THEN rows
    ELSE UpsertRows(UpsertRow(rows, Head(chunk)), Tail(chunk))

\* "Insertar nuevos en batches"
InsertChunk(f, chunk) ==
    IF Failed(f) THEN Raise(f, f.fault.kind)
    ELSE IF ViolatesUnique(f.db, chunk) THEN Raise(f, "APIError")
    ELSE [f EXCEPT !.db.partidos = InsertRows(@, chunk), !.insertados = @ + Len(chunk)]

RECURSIVE InsertChunks(_, _)
InsertChunks(f, chunks) ==
    IF chunks = <<>> \/ ~Live(f) THEN f
    ELSE InsertChunks(InsertChunk(Execute(f), Head(chunks)), Tail(chunks))

WriteInserts(f) == IF Live(f) THEN InsertChunks(f, _chunked(f.rows_insert, WriteChunk)) ELSE f

\* "Upsert de finalizados existentes en batches"
UpsertChunk(f, chunk) ==
    IF Failed(f) THEN Raise(f, f.fault.kind)
    ELSE [f EXCEPT !.db.partidos = UpsertRows(@, chunk), !.actualizados = @ + Len(chunk)]

RECURSIVE UpsertChunks(_, _)
UpsertChunks(f, chunks) ==
    IF chunks = <<>> \/ ~Live(f) THEN f
    ELSE UpsertChunks(UpsertChunk(Execute(f), Head(chunks)), Tail(chunks))

WriteUpserts(f) == IF Live(f) THEN UpsertChunks(f, _chunked(f.rows_upsert, WriteChunk)) ELSE f

\* the closing except clauses, were EnvironmentError not re-raised
OuterHandler_Swallow(exc) == [outcome |-> "return", exc |-> None, ret |-> 0]

\* the two except clauses that close upsert_partidos
OuterHandler(exc) ==
    IF IsEnvironmentError(exc) THEN [outcome |-> "raise", exc |-> exc, ret |-> NoInt]
    ELSE [outcome |-> "return", exc |-> None, ret |-> 0]

Returns(ret) == [outcome |-> "return", exc |-> None, ret |-> ret]

\* what a call leaves behind: its result, the store, and the last values of its locals
Locals == {"valid_partidos", "existing_links", "rows_insert", "rows_upsert", "dispo",
           "insertados", "actualizados", "db", "n", "cache"}

Finish(f) ==
    [k \in Locals |-> f[k]] @@ [caught |-> f.exc, early |-> f.returned] @@
    (IF f.exc # None THEN OuterHandler(f.exc)
     ELSE IF f.returned THEN Returns(0)
     ELSE Returns(f.insertados))

upsert_partidos(db, partidos, creds, fault) ==
    IF partidos = <<>> THEN Finish([Frame(db, fault) EXCEPT !.returned = TRUE])
    ELSE Finish(WriteUpserts(WriteInserts(PrepareAll(DetectExisting(
             PreloadEstados(ValidateAll(CreateClient(Frame(db, fault), creds), partidos),
                            <<"Finalizado", "Programado">>))))))

\* ------------------------------------------------------ the state machine
VARIABLES
    store,      \* the tables of the normalized store
    last,       \* the last call of upsert_partidos: its inputs, result and locals
    ncalls,     \* calls made so far
    jobs,       \* JobManager._jobs: job id -> job dict
    heap,       \* the metrics dicts, each one object that job dicts and copies refer to
    created,    \* job ids handed out so far (uuid4: never the same twice)
    runs,       \* the background tasks run_scraping_league_job, each with its position
    nclears,    \* calls of clear_jobs so far
    lock,       \* JobManager._lock: the thread that holds it, or 0
    thr,        \* the threads calling into JobManager, each with its position
    nops,       \* calls into JobManager begun by the threads so far
    race,       \* two runs resolving one entity, round-trip by round-trip
    scr,        \* one league extraction, statement by statement
    fun         \* one call of parse_flashscore_fecha: its arguments and its result

etlvars == <<store, last, ncalls>>
jobvars == <<jobs, heap, created>>
runvars == <<runs, nclears>>
thrvars == <<lock, thr, nops>>

vars == <<store, last, ncalls, jobs, heap, created, runs, nclears, lock, thr, nops, race, scr,
          fun>>

\* what a call of upsert_partidos on its own leaves alone
outside_etl == <<jobvars, runvars, thrvars, race, scr, fun>>

NoCall == [called |-> FALSE]

NThreads == 2        \* threads calling into JobManager
Threads == 1..NThreads
Idle == [pc |-> "idle"]

Init ==
    /\ store = EmptyStore
    /\ last = NoCall
    /\ ncalls = 0
    /\ jobs = <<>> /\ heap = <<>> /\ created = 0
    /\ runs = <<>> /\ nclears = 0
    /\ lock = 0 /\ thr = [t \in Threads |-> Idle] /\ nops = 0
    /\ race = Idle
    /\ scr = Idle
    /\ fun = Idle

\* one call of upsert_partidos on the store as it stands; r is what the call leaves
Call(partidos, creds, fault, again) ==
    \E r \in {upsert_partidos(store, partidos, creds, fault)} :
        /\ store' = r.db
        /\ last' = [called |-> TRUE, again |-> again, partidos |-> partidos,
                    creds |-> creds,
                    fault |-> fault, before |-> store]
                   @@ [k \in DOMAIN r \ {"db"} |-> r[k]]

Ingest ==
    /\ ~last.called /\ ncalls < MaxCalls
    /\ \E partidos \in Batches, creds \in BOOLEAN :
          Call(partidos, creds, NoFault, FALSE)
    /\ ncalls' = ncalls + 1
    /\ UNCHANGED outside_etl

\* the same batch handed over a second time, nothing else having written in between
IngestAgain ==
    /\ last.called /\ ~last.again
    /\ Call(last.partidos, last.creds, NoFault, TRUE)
    /\ UNCHANGED <<ncalls, outside_etl>>

\* the call is over: its locals and its result are gone, the store stays
Return ==
    /\ last.called
    /\ last' = NoCall
    /\ UNCHANGED <<store, ncalls, outside_etl>>

Next == Ingest \/ IngestAgain \/ Return

Spec == Init /\ [][Next]_vars

\* ---------------------------------------------- the store failing mid-call
MaxFaultBatch == 2   \* longest batch of a call during which the store fails

ValidScraped == { p \in Scraped : IsValid(p) }

\* a call during which one round-trip to the store fails: any of the round-trips
\* the call makes, with an exception that is an OSError or one that is not
IngestFaulty ==
    /\ ~last.called /\ ncalls < MaxCalls
    /\ \E partidos \in SeqsUpTo(ValidScraped, MaxFaultBatch) \ { <<>> }, kind \in FaultKinds :
         \E at \in 1..upsert_partidos(store, partidos, TRUE, NoFault).n :
            Call(partidos, TRUE, [at |-> at, kind |-> kind], FALSE)
    /\ ncalls' = ncalls + 1
    /\ UNCHANGED outside_etl

NextFault == IngestFaulty \/ Return

SpecFault == Init /\ [][NextFault]_vars

\* ------------------------------------------------------------ properties
RowsOf(db, link) == SelectSeq(db.partidos, LAMBDA r : r.link = link)
Status(db, row) == Select(db.estados, [id |-> row.estado_id])[1].nombre
Records(call) == { call.partidos[i] : i \in 1..Len(call.partidos) }
AllValid(call) == \A p \in Records(call) : IsValid(p)
NoSlug(p) == p.link # Missing /\ p.pais_slug = Missing

\* C1 (as claimed): a batch of valid records handed over twice in a row, the store
\* reachable and no other writer: the second run leaves the stored Match rows as the
\* first run left them and reports zero inserts.
C1_Idempotent ==
    (last.called /\ last.again /\ last.creds /\ AllValid(last))
        => /\ store.partidos = last.before.partidos
           /\ last.outcome = "return" /\ last.ret = 0

\* C2 (as claimed): every record whose link is already stored and that does not carry
\* both goals leaves the stored row of that link unchanged in every field.
C2_NoClobber ==
    last.called =>
        \A p \in Records(last) :
            (p.link \in StoredLinks(last.before) /\ ~is_final(p))
                => RowsOf(store, p.link) = RowsOf(last.before, p.link)

\* C2 (amended): the same, provided no record of the batch with that link carries
\* both goals.
C2_NoClobberAmended ==
    last.called =>
        \A p \in Records(last) :
            ( /\ p.link \in StoredLinks(last.before) /\ ~is_final(p)
              /\ \A q \in Records(last) : q.link = p.link => ~is_final(q) )
                => RowsOf(store, p.link) = RowsOf(last.before, p.link)

\* a call skipped a record of a stored link while it wrote rows for other records,
\* the stored row being other than the one the skipped record would give
C2_Witness ==
    /\ last.called /\ last.outcome = "return"
    /\ \E i \in 1..Len(last.dispo) :
          /\ last.dispo[i] = "skip"
          /\ \A q \in Records(last) : q.link = last.valid_partidos[i].link => ~is_final(q)
          /\ \E r \in Range(RowsOf(store, last.valid_partidos[i].link)) :
                r.goles_local # NoInt
    /\ last.insertados > 0

\* C3: every valid record that resolved without error is in exactly one of: skipped
\* (link in the membership set, not final), scheduled for upsert (in the set, final),
\* scheduled for insert (not in the set); an insert row is Finalizado when both goals
\* are present and Programado otherwise.
C3_Disposition ==
    last.called =>
        LET valid == last.valid_partidos
            resolved == { i \in 1..Len(last.dispo) : last.dispo[i] # "error" }
            Sub(want(_)) == SelectSeq([i \in 1..Len(last.dispo) |-> <<i, valid[i]>>],
                                   LAMBDA x : x[1] \in resolved /\ want(x[2]))
            Links(rows) == [i \in 1..Len(rows) |-> rows[i].link]
            Goals(rows) == [i \in 1..Len(rows) |-> <<rows[i].goles_local, rows[i].goles_visitante>>]
            Of(sub) == [i \in 1..Len(sub) |-> sub[i][2]]
            toInsert == Of(Sub(LAMBDA p : p.link \notin last.existing_links))
            toUpsert == Of(Sub(LAMBDA p : p.link \in last.existing_links /\ is_final(p)))
        IN  /\ Links(last.rows_insert) = Links(toInsert)
            /\ Goals(last.rows_insert) = Goals(toInsert)
            /\ Links(last.rows_upsert) = Links(toUpsert)
            /\ Goals(last.rows_upsert) = Goals(toUpsert)
            /\ \A i \in resolved :
                  last.dispo[i] = "skip" <=> ( /\ valid[i].link \in last.existing_links
                                               /\ ~is_final(valid[i]) )
            /\ \A i \in 1..Len(last.rows_insert) :
                  LET row == last.rows_insert[i] IN
                  Status(store, row) = IF row.goles_local # NoInt /\ row.goles_visitante # NoInt
                                       THEN "Finalizado" ELSE "Programado"

\* one call took all three branches, and inserted both a Programado and a Finalizado row
C3_Witness ==
    /\ last.called /\ last.outcome = "return"
    /\ {"skip", "upsert", "insert"} \subseteq Range(last.dispo)

\* C4 (as claimed): a link stored as Programado and ingested again with a record that
\* carries both goals ends as Finalizado, the record counted as updated, not inserted.
C4_FinalizeCounted ==
    (last.called /\ last.creds /\ AllValid(last)) =>
        \A p \in Records(last) :
            ( /\ is_final(p)
              /\ \E r \in Range(RowsOf(last.before, p.link)) :
                    Status(last.before, r) = "Programado" )
                => /\ \A r \in Range(RowsOf(store, p.link)) : Status(store, r) = "Finalizado"
                   /\ last.actualizados >= 1
                   /\ \A i \in 1..Len(last.rows_insert) : last.rows_insert[i].link # p.link

\* C5 (as claimed): no stored Match row is ever deleted, and the only change a stored
\* row ever undergoes is the passage from Programado to Finalizado.
C5_OnlyFinalize ==
    [][\A i \in 1..Len(store.partidos) :
          /\ i <= Len(store'.partidos)
          /\ store'.partidos[i].link = store.partidos[i].link
          /\ \/ store'.partidos[i] = store.partidos[i]
             \/ /\ Status(store, store.partidos[i]) = "Programado"
                /\ Status(store', store'.partidos[i]) = "Finalizado"]_vars

\* C5 (amended): no stored Match row is ever deleted; a stored row that changes is
\* rewritten by the upsert of a record with both goals, so it ends as Finalizado with
\* both goals present, whether it was Programado or already Finalizado; a Finalizado
\* row never returns to Programado.
C5_OnlyFinalizeAmended ==
    [][\A i \in 1..Len(store.partidos) :
          /\ i <= Len(store'.partidos)
          /\ store'.partidos[i].link = store.partidos[i].link
          /\ store'.partidos[i] # store.partidos[i]
                => /\ Status(store', store'.partidos[i]) = "Finalizado"
                   /\ store'.partidos[i].goles_local # NoInt
                   /\ store'.partidos[i].goles_visitante # NoInt
          /\ Status(store, store.partidos[i]) = "Finalizado"
                => Status(store', store'.partidos[i]) = "Finalizado"]_vars

\* a call has just rewritten a stored row: one from Programado to Finalizado
C5_Witness ==
    /\ last.called
    /\ \E i \in 1..Len(last.before.partidos) :
          /\ Status(last.before, last.before.partidos[i]) = "Programado"
          /\ Status(store, store.partidos[i]) = "Finalizado"

\* C6: a record with a link and without pais_slug anywhere in the batch: the call writes
\* nothing, to no table.
C6_NoSlugNoWrite ==
    (last.called /\ \E p \in Records(last) : NoSlug(p)) => store = last.before

\* such a batch, with valid records of links not yet stored before and after the record
C6_Witness ==
    /\ last.called
    /\ \E i, j, k \in 1..Len(last.partidos) :
          /\ i < j /\ j < k
          /\ NoSlug(last.partidos[j])
          /\ IsValid(last.partidos[i]) /\ last.partidos[i].link \notin StoredLinks(store)
          /\ IsValid(last.partidos[k]) /\ last.partidos[k].link \notin StoredLinks(store)
    /\ last.creds

\* C7 (as claimed): some record of the batch without a valid pais_slug: ValueError reaches
\* the caller.
C7_RaisesValueError ==
    (last.called /\ last.creds /\ \E p \in Records(last) : NoSlug(p))
        => last.outcome = "raise" /\ last.exc = "ValueError"

\* C8 (as claimed): a record missing link, league, season label, home or away team is
\* left out of the valid records, and every valid record of the batch is persisted.
C8_PerRecordValidation ==
    (last.called /\ last.creds) =>
        \A p \in Records(last) :
            ( \/ p.link = Missing \/ p.liga = Missing \/ p.temporada = Missing
              \/ p.local = Missing \/ p.visitante = Missing )
                => /\ p \notin Range(last.valid_partidos)
                   /\ \A q \in Records(last) : IsValid(q) => q.link \in StoredLinks(store)

\* C9 (as claimed): a round-trip to the store that fails makes upsert_partidos raise.
C9_ConnectivityPropagates ==
    (last.called /\ last.fault.at > 0) => last.outcome = "raise"

\* C10: credentials missing and a non-empty batch: EnvironmentError reaches the caller
\* and no round-trip to the store was made.
C10_MissingCredentials ==
    (last.called /\ ~last.creds /\ last.partidos # <<>>)
        => /\ last.outcome = "raise" /\ last.exc = "EnvironmentError"
           /\ last.n = 0
           /\ store = last.before

\* such a call, on a batch with a valid record of a link not stored, the store not empty
C10_Witness ==
    /\ last.called /\ ~last.creds
    /\ \E p \in Records(last) : IsValid(p) /\ p.link \notin StoredLinks(store)
    /\ store.partidos # <<>>

\* positions of the valid records a call took through the given branch of the loop
Took(call, branch) == { i \in 1..Len(call.dispo) : call.dispo[i] = branch }

\* the links of the valid records at the given positions, in batch order
LinksAt(call, positions) ==
    LET at == SelectSeq([i \in 1..Len(call.valid_partidos) |-> i],
                        LAMBDA i : i \in positions)
    IN  [k \in 1..Len(at) |-> call.valid_partidos[at[k]].link]

RowLinks(rows) == [i \in 1..Len(rows) |-> rows[i].link]

\* C11: a record whose resolution fails is caught inside the call: the call returns, the
\* record is in neither write list, and every other valid record, the later ones
\* included, takes the branch its link and goals call for and is in the list of it.
C11_RecordDropped ==
    (last.called /\ Took(last, "error") # {}) =>
        /\ last.outcome = "return"
        /\ Len(last.dispo) = Len(last.valid_partidos)
        /\ RowLinks(last.rows_insert) = LinksAt(last, Took(last, "insert"))
        /\ RowLinks(last.rows_upsert) = LinksAt(last, Took(last, "upsert"))
        /\ \A i \in 1..Len(last.dispo) \ Took(last, "error") :
              LET p == last.valid_partidos[i] IN
              last.dispo[i] = IF p.link \notin last.existing_links THEN "insert"
                              ELSE IF is_final(p) THEN "upsert" ELSE "skip"

\* the first record of a batch failed, the second was inserted by the same call
C11_Witness ==
    /\ last.called /\ Len(last.dispo) = 2
    /\ last.dispo[1] = "error" /\ last.dispo[2] = "insert"
    /\ last.insertados = 1
    /\ Len(store.partidos) = Len(last.before.partidos) + 1

\* C12 (as claimed): the count a call returns is the number of Match rows it inserted,
\* also when a later write chunk fails after earlier ones were committed.
C12_InsertedCount ==
    (last.called /\ last.creds /\ \A p \in Records(last) : ~NoSlug(p)) =>
        /\ last.outcome = "return"
        /\ last.ret = Len(store.partidos) - Len(last.before.partidos)

\* ------------------------------------------------------------ JobManager
\* timestamps are told apart only as set or not set
Now == "now"

NewMetrics == [partidos_nuevos |-> 0, eventos_nuevos |-> 0, errores |-> 0]

\* the dict create_job builds; metrics is the place in the heap of its metrics dict
NewJob(job_id, tipo, url, metrics) ==
    [id |-> job_id, tipo |-> tipo, url |-> url, status |-> "pending",
     created_at |-> Now, started_at |-> None, finished_at |-> None,
     metrics |-> metrics, error_message |-> None]

\* self._jobs[job_id] = job
PutJob(js, job) == (job.id :> job) @@ js

\* job[key] = value, on the dict the map holds
SetKey(js, job_id, key, value) == [js EXCEPT ![job_id][key] = value]

\* the three transitions: what the call raises, and the map it leaves
Raised(js, exc) == [exc |-> exc, jobs |-> js]
Done(js) == [exc |-> None, jobs |-> js]

\* the assignments each transition makes to the job dict, in order
Statements(op, arg) ==
    CASE op = "start_job"  -> << <<"status", "running">>, <<"started_at", Now>> >>
      [] op = "finish_job" -> << <<"status", "done">>, <<"finished_at", Now>>,
                                 <<"metrics", arg>> >>
      [] op = "fail_job"   -> << <<"status", "failed">>, <<"finished_at", Now>>,
                                 <<"error_message", arg>> >>

RECURSIVE Assign(_, _, _)
Assign(js, job_id, stmts) ==
    IF stmts = <<>> THEN js
    ELSE Assign(SetKey(js, job_id, Head(stmts)[1], Head(stmts)[2]), job_id, Tail(stmts))

\* job = self._jobs.get(job_id); if not job: raise KeyError; then the assignments
Transition(js, job_id, stmts) ==
    IF job_id \notin DOMAIN js THEN Raised(js, "KeyError")
    ELSE Done(Assign(js, job_id, stmts))

start_job(js, job_id) == Transition(js, job_id, Statements("start_job", None))

finish_job(js, job_id, metrics) == Transition(js, job_id, Statements("finish_job", metrics))

fail_job(js, job_id, error) == Transition(js, job_id, Statements("fail_job", error))

\* dict(job): a new dict with the same values, the metrics dict shared, or None
NoJob == [id |-> 0]
get_job(js, job_id) == IF job_id \in DOMAIN js THEN js[job_id] ELSE NoJob

list_jobs(js) == { js[job_id] : job_id \in DOMAIN js }

\* ------------------------------------------ scrape_league and its background task
MaxRuns == 2         \* requests to /scraping/league
MaxClears == 2       \* calls of clear_jobs
MaxScrape == 1       \* longest list an extraction hands to the task

\* what scrape_partidos_liga_sync hands over: finished matches only
LeagueScrapes ==
    SeqsUpTo({ p \in Scraped : IsValid(p) /\ is_final(p) /\ p.scraped_at = 1 }, MaxScrape)

\* a request in progress: its job, where it stands, the locals of its handler or task,
\* the exception in hand, the status in the response of /scraping/league, and the
\* number of Match rows its ingestion added to the store
NewRun(job_id, via, pc) ==
    [job_id |-> job_id, via |-> via, pc |-> pc, exc |-> None, partidos |-> <<>>,
     partidos_nuevos |-> 0, eventos_nuevos |-> 0, errores |-> 0, caught |-> None,
     response |-> None, inserted |-> 0]

\* POST /scraping/league: the job is created pending, the task is queued, and the
\* job as get_job gives it is the response
scrape_league ==
    /\ Len(runs) < MaxRuns
    /\ created' = created + 1
    /\ heap' = Append(heap, NewMetrics)
    /\ jobs' = PutJob(jobs, NewJob(created + 1, "league", "url", Len(heap) + 1))
    /\ runs' = Append(runs, [NewRun(created + 1, "league", "start") EXCEPT
                                !.response = get_job(jobs', created + 1).status])
    /\ UNCHANGED <<etlvars, nclears, thrvars, race, scr, fun>>

\* the task, were an exception to end it without reaching its except clause
Except_Swallow(r, exc) == runs' = [runs EXCEPT ![r].pc = "lost", ![r].caught = exc]

\* the task moves on, or into its except clause with the exception in hand
Goto(r, pc) == runs' = [runs EXCEPT ![r].pc = pc]
Except(r, exc) == runs' = [runs EXCEPT ![r].pc = "except", ![r].caught = exc]

\* job_manager.start_job(job_id)
RunStart(r) ==
    /\ runs[r].pc = "start"
    /\ \E res \in {start_job(jobs, runs[r].job_id)} :
          /\ jobs' = res.jobs
          /\ IF res.exc # None THEN Except(r, res.exc) ELSE Goto(r, "scrape")
    /\ UNCHANGED <<etlvars, heap, created, nclears, thrvars, race, scr, fun>>

\* partidos = await run_in_threadpool(scrape_partidos_liga_sync, url); the browser
\* is launched outside the try block of the extraction, so the call can raise
RunScrape(r) ==
    /\ runs[r].pc = "scrape"
    /\ \/ \E partidos \in LeagueScrapes :
             runs' = [runs EXCEPT ![r].pc = "ingest", ![r].partidos = partidos]
       \/ Except(r, "Error")
    /\ UNCHANGED <<etlvars, jobvars, nclears, thrvars, race, scr, fun>>

\* partidos_nuevos = upsert_partidos(partidos)
RunIngest(r) ==
    /\ runs[r].pc = "ingest"
    /\ \E creds \in BOOLEAN :
       \E u \in {upsert_partidos(store, runs[r].partidos, creds, NoFault)} :
          /\ store' = u.db
          /\ IF u.outcome = "raise" THEN Except(r, u.exc)
             ELSE runs' = [runs EXCEPT ![r].pc = "finish", ![r].partidos_nuevos = u.ret,
                                       ![r].inserted = Len(u.db.partidos) - Len(store.partidos)]
    /\ UNCHANGED <<last, ncalls, jobvars, nclears, thrvars, race, scr, fun>>

\* metrics = {...}; job_manager.finish_job(job_id, metrics)
RunFinish(r) ==
    /\ runs[r].pc = "finish"
    /\ heap' = Append(heap, [partidos_nuevos |-> runs[r].partidos_nuevos,
                             eventos_nuevos |-> 0, errores |-> 0])
    /\ \E res \in {finish_job(jobs, runs[r].job_id, Len(heap) + 1)} :
          /\ jobs' = res.jobs
          /\ IF res.exc # None THEN Except(r, res.exc) ELSE Goto(r, "returned")
    /\ UNCHANGED <<etlvars, created, nclears, thrvars, race, scr, fun>>

\* except Exception as e: job_manager.fail_job(job_id, str(e))
RunFail(r) ==
    /\ runs[r].pc = "except"
    /\ \E res \in {fail_job(jobs, runs[r].job_id, runs[r].caught)} :
          /\ jobs' = res.jobs
          /\ runs' = [runs EXCEPT ![r].pc = IF res.exc # None THEN "raised" ELSE "returned",
                                  ![r].exc = res.exc]
    /\ UNCHANGED <<etlvars, heap, created, nclears, thrvars, race, scr, fun>>

\* JobManager.clear_jobs, from any thread at any time
clear_jobs ==
    /\ nclears < MaxClears
    /\ jobs' = <<>>
    /\ nclears' = nclears + 1
    /\ UNCHANGED <<etlvars, heap, created, runs, thrvars, race, scr, fun>>

\* POST /scraping/manual: create_job, then start_job inside the try block
manual_scraping ==
    /\ Len(runs) < MaxRuns
    /\ created' = created + 1
    /\ heap' = Append(heap, NewMetrics)
    /\ \E res \in {start_job(PutJob(jobs, NewJob(created + 1, "league", "url", Len(heap) + 1)),
                             created + 1)} :
          /\ jobs' = res.jobs
          /\ runs' = Append(runs, NewRun(created + 1, "manual", "m_scrape"))
    /\ UNCHANGED <<etlvars, nclears, thrvars, race, scr, fun>>

\* partidos = await run_in_threadpool(scrape_partidos_liga_sync, url);
\* partidos_nuevos = len(partidos)
ManualScrape(r) ==
    /\ runs[r].pc = "m_scrape"
    /\ \/ \E partidos \in LeagueScrapes :
             runs' = [runs EXCEPT ![r].pc = "goles", ![r].partidos = partidos,
                                  ![r].partidos_nuevos = Len(partidos)]
       \/ runs' = [runs EXCEPT ![r].pc = "m_except", ![r].caught = "Error"]
    /\ UNCHANGED <<etlvars, jobvars, nclears, thrvars, race, scr, fun>>

\* for partido in partidos: the events of the match are counted, or the error is;
\* the matches still to visit are what is left of partidos
ManualGoles(r) ==
    /\ runs[r].pc = "goles"
    /\ IF runs[r].partidos = <<>>
       THEN runs' = [runs EXCEPT ![r].pc = "m_finish"]
       ELSE \/ \E eventos \in 0..1 :
                  runs' = [runs EXCEPT ![r].partidos = Tail(@),
                                       ![r].eventos_nuevos = @ + eventos]
            \/ runs' = [runs EXCEPT ![r].partidos = Tail(@), ![r].errores = @ + 1]
    /\ UNCHANGED <<etlvars, jobvars, nclears, thrvars, race, scr, fun>>

\* metrics = {...}; job_manager.finish_job(job_id, metrics); job = get_job(job_id)
ManualFinish(r) ==
    /\ runs[r].pc = "m_finish"
    /\ heap' = Append(heap, [partidos_nuevos |-> runs[r].partidos_nuevos,
                             eventos_nuevos |-> runs[r].eventos_nuevos,
                             errores |-> runs[r].errores])
    /\ \E res \in {finish_job(jobs, runs[r].job_id, Len(heap) + 1)} :
          /\ jobs' = res.jobs
          /\ IF res.exc # None
             THEN runs' = [runs EXCEPT ![r].pc = "m_except", ![r].caught = res.exc]
             ELSE runs' = [runs EXCEPT ![r].pc = "returned",
                                       ![r].response = get_job(res.jobs, runs[r].job_id).status]
    /\ UNCHANGED <<etlvars, created, nclears, thrvars, race, scr, fun>>

\* except Exception as e: fail_job(job_id, str(e)); job = get_job(job_id)
ManualFail(r) ==
    /\ runs[r].pc = "m_except"
    /\ \E res \in {fail_job(jobs, runs[r].job_id, runs[r].caught)} :
          /\ jobs' = res.jobs
          /\ IF res.exc # None
             THEN runs' = [runs EXCEPT ![r].pc = "raised", ![r].exc = res.exc]
             ELSE runs' = [runs EXCEPT ![r].pc = "returned",
                                       ![r].response = get_job(res.jobs, runs[r].job_id).status]
    /\ UNCHANGED <<etlvars, heap, created, nclears, thrvars, race, scr, fun>>

\* the steps of the background task of /scraping/league
TaskStep ==
    \/ \E r \in 1..Len(runs) : RunStart(r)
    \/ \E r \in 1..Len(runs) : RunScrape(r)
    \/ \E r \in 1..Len(runs) : RunIngest(r)
    \/ \E r \in 1..Len(runs) : RunFinish(r)
    \/ \E r \in 1..Len(runs) : RunFail(r)

MaxTasks == 1        \* requests to /scraping/league whose tasks run to their end

NextLeague ==
    \/ Len(runs) < MaxTasks /\ scrape_league
    \/ clear_jobs
    \/ \E r \in 1..Len(runs) : RunStart(r)
    \/ \E r \in 1..Len(runs) : RunScrape(r)
    \/ \E r \in 1..Len(runs) : RunIngest(r)
    \/ \E r \in 1..Len(runs) : RunFinish(r)
    \/ \E r \in 1..Len(runs) : RunFail(r)

\* the event loop runs a queued task and resumes it when what it awaits is done
SpecLeague == Init /\ [][NextLeague]_vars /\ WF_vars(TaskStep)

NextRun ==
    \/ scrape_league
    \/ manual_scraping
    \/ clear_jobs
    \/ \E r \in 1..Len(runs) : RunStart(r)
    \/ \E r \in 1..Len(runs) : RunScrape(r)
    \/ \E r \in 1..Len(runs) : RunIngest(r)
    \/ \E r \in 1..Len(runs) : RunFinish(r)
    \/ \E r \in 1..Len(runs) : RunFail(r)
    \/ \E r \in 1..Len(runs) : ManualScrape(r)
    \/ \E r \in 1..Len(runs) : ManualGoles(r)
    \/ \E r \in 1..Len(runs) : ManualFinish(r)
    \/ \E r \in 1..Len(runs) : ManualFail(r)

SpecRun == Init /\ [][NextRun]_vars

\* C13 (as claimed): no exception leaves a run: a run in which something raised ends
\* normally, and its job, if still tracked, is failed and carries the message.
C13_RunNeverRaises ==
    \A r \in 1..Len(runs) :
        /\ runs[r].pc # "raised"
        /\ (runs[r].pc = "returned" /\ runs[r].caught # None /\ runs[r].job_id \in DOMAIN jobs)
              => /\ jobs[runs[r].job_id].status = "failed"
                 /\ jobs[runs[r].job_id].error_message = runs[r].caught

\* ------------------------------------- threads calling into JobManager
MaxOps == 3          \* calls into JobManager begun by the threads
MaxJobs == 2         \* jobs created by the threads

\* a job id no create_job ever handed out
UnknownId == 0

At(t, pc) == thr[t].pc = pc
Move(t, next) == thr' = [thr EXCEPT ![t] = next @@ @]
Begin(t, call) ==
    /\ At(t, "idle") /\ nops < MaxOps
    /\ thr' = [thr EXCEPT ![t] = [pc |-> "acquire"] @@ call]
    /\ nops' = nops + 1

\* create_job up to "with self._lock": the job dict is built, not yet in the map
BeginCreate(t) ==
    /\ created < MaxJobs
    /\ Begin(t, [op |-> "create_job",
                 job |-> NewJob(created + 1, "league", "url", Len(heap) + 1)])
    /\ created' = created + 1
    /\ heap' = Append(heap, NewMetrics)
    /\ UNCHANGED <<etlvars, jobs, runvars, lock, race, scr, fun>>

BeginStart(t) ==
    /\ \E job_id \in DOMAIN jobs \cup {UnknownId} :
          Begin(t, [op |-> "start_job", job_id |-> job_id,
                    left |-> Statements("start_job", None)])
    /\ UNCHANGED <<etlvars, jobvars, runvars, lock, race, scr, fun>>

\* the caller builds the metrics dict and hands it over
BeginFinish(t) ==
    /\ \E job_id \in DOMAIN jobs \cup {UnknownId} :
          Begin(t, [op |-> "finish_job", job_id |-> job_id,
                    left |-> Statements("finish_job", Len(heap) + 1)])
    /\ heap' = Append(heap, [partidos_nuevos |-> 1, eventos_nuevos |-> 0, errores |-> 0])
    /\ UNCHANGED <<etlvars, jobs, created, runvars, lock, race, scr, fun>>

BeginFail(t) ==
    /\ \E job_id \in DOMAIN jobs \cup {UnknownId} :
          Begin(t, [op |-> "fail_job", job_id |-> job_id,
                    left |-> Statements("fail_job", "Error")])
    /\ UNCHANGED <<etlvars, jobvars, runvars, lock, race, scr, fun>>

BeginGet(t) ==
    /\ \E job_id \in DOMAIN jobs \cup {UnknownId} :
          Begin(t, [op |-> "get_job", job_id |-> job_id])
    /\ UNCHANGED <<etlvars, jobvars, runvars, lock, race, scr, fun>>

BeginList(t) ==
    /\ Begin(t, [op |-> "list_jobs"])
    /\ UNCHANGED <<etlvars, jobvars, runvars, lock, race, scr, fun>>

\* threading.Lock, were it to let a thread in while another holds it
CanAcquire_NoExclusion(t) == TRUE

\* threading.Lock: one holder at a time
CanAcquire(t) == lock = 0

\* with self._lock:
Acquire(t) ==
    /\ At(t, "acquire") /\ CanAcquire(t)
    /\ lock' = t
    /\ Move(t, [pc |-> "locked"])
    /\ UNCHANGED <<etlvars, jobvars, runvars, nops, race, scr, fun>>

\* self._jobs[job_id] = job
Put(t) ==
    /\ At(t, "locked") /\ thr[t].op = "create_job"
    /\ jobs' = PutJob(jobs, thr[t].job)
    /\ Move(t, [pc |-> "release"])
    /\ UNCHANGED <<etlvars, heap, created, runvars, lock, nops, race, scr, fun>>

\* job = self._jobs.get(job_id); if not job: raise KeyError
Get(t) ==
    /\ At(t, "locked") /\ thr[t].op \in {"start_job", "finish_job", "fail_job"}
    /\ IF thr[t].job_id \in DOMAIN jobs THEN Move(t, [pc |-> "assign"])
       ELSE Move(t, [pc |-> "release", exc |-> "KeyError"])
    /\ UNCHANGED <<etlvars, jobvars, runvars, lock, nops, race, scr, fun>>

\* the next assignment to the job dict
AssignNext(t) ==
    /\ At(t, "assign")
    /\ jobs' = SetKey(jobs, thr[t].job_id, Head(thr[t].left)[1], Head(thr[t].left)[2])
    /\ Move(t, [pc |-> IF Tail(thr[t].left) = <<>> THEN "release" ELSE "assign",
                left |-> Tail(thr[t].left)])
    /\ UNCHANGED <<etlvars, heap, created, runvars, lock, nops, race, scr, fun>>

\* return dict(job) if job else None / return [dict(job) for job in ...]
Copy(t) ==
    /\ At(t, "locked") /\ thr[t].op \in {"get_job", "list_jobs"}
    /\ Move(t, [pc |-> "release",
                result |-> IF thr[t].op = "get_job" THEN {get_job(jobs, thr[t].job_id)}
                           ELSE list_jobs(jobs)])
    /\ UNCHANGED <<etlvars, jobvars, runvars, lock, nops, race, scr, fun>>

\* the with block is left, by return or by the KeyError; the caller has the result
Release(t) ==
    /\ At(t, "release")
    /\ lock' = 0
    /\ Move(t, [pc |-> "idle"])
    /\ UNCHANGED <<etlvars, jobvars, runvars, nops, race, scr, fun>>

\* the copies a thread holds from its last get_job or list_jobs
Holds(t) == IF At(t, "idle") /\ "result" \in DOMAIN thr[t] THEN thr[t].result \ {NoJob} ELSE {}

\* a caller writes to a key of a copy it was handed: job["url"] = ...
MutateKey(t) ==
    /\ \E job \in Holds(t) :
          /\ job.url # "edited"
          /\ Move(t, [result |-> (thr[t].result \ {job}) \cup {[job EXCEPT !.url = "edited"]}])
    /\ UNCHANGED <<etlvars, jobvars, runvars, lock, nops, race, scr, fun>>

\* a caller writes into the metrics of a copy: job["metrics"]["errores"] = ...
MutateMetrics(t) ==
    /\ \E job \in Holds(t) :
          /\ heap[job.metrics].errores # 9
          /\ heap' = [heap EXCEPT ![job.metrics].errores = 9]
    /\ UNCHANGED <<etlvars, jobs, created, runvars, thrvars, race, scr, fun>>

NextJobs ==
    \/ \E t \in Threads : BeginCreate(t)
    \/ \E t \in Threads : BeginStart(t)
    \/ \E t \in Threads : BeginFinish(t)
    \/ \E t \in Threads : BeginFail(t)
    \/ \E t \in Threads : BeginGet(t)
    \/ \E t \in Threads : BeginList(t)
    \/ \E t \in Threads : Acquire(t)
    \/ \E t \in Threads : Put(t)
    \/ \E t \in Threads : Get(t)
    \/ \E t \in Threads : AssignNext(t)
    \/ \E t \in Threads : Copy(t)
    \/ \E t \in Threads : Release(t)
    \/ \E t \in Threads : MutateKey(t)
    \/ \E t \in Threads : MutateMetrics(t)

SpecJobs == Init /\ [][NextJobs]_vars

\* C14 (as claimed): under any sequence of calls a job enters the map pending, and its
\* status changes only from pending to running and from running to done or failed.
C14_Lifecycle ==
    [][ \A job_id \in DOMAIN jobs' :
           IF job_id \notin DOMAIN jobs THEN jobs'[job_id].status = "pending"
           ELSE \/ jobs'[job_id].status = jobs[job_id].status
                \/ <<jobs[job_id].status, jobs'[job_id].status>> \in
                      { <<"pending", "running">>, <<"running", "done">>,
                        <<"running", "failed">> } ]_vars

\* a job dict, or a copy of one, with the metrics dict it refers to written out
Deref(job) == [job EXCEPT !.metrics = heap[@]]

\* the state the manager tracks, as a reader of it would find it
Tracked == [job_id \in DOMAIN jobs |-> Deref(jobs[job_id])]

\* the copies a thread holds, as the thread would find them
Held(t) == { Deref(job) : job \in Holds(t) }

\* C15 (as claimed): a write by a caller to a copy it was handed, its metrics included,
\* leaves the tracked state as it was; a step of the manager leaves every copy a caller
\* holds as it was.
C15_IndependentCopies ==
    [][ LET CallerWrites ==
                /\ nops' = nops
                /\ \A t \in Threads : thr'[t] = thr[t] \/ (At(t, "idle") /\ thr'[t].pc = "idle")
        IN  /\ CallerWrites => Tracked' = Tracked
            /\ ~CallerWrites =>
                  \A t \in Threads : (At(t, "idle") /\ thr'[t].pc = "idle") => Held(t)' = Held(t)
      ]_vars

\* a job dict no transition is half way through
Whole(job) ==
    /\ job.status \in {"done", "failed"} => job.finished_at # None
    /\ job.status = "running" => job.started_at # None
    /\ job.status = "failed" => job.error_message # None

\* C16: whatever the interleaving of the threads, every job whose create_job has got
\* past the lock is in the map, and every copy get_job or list_jobs returned is of a
\* job no transition was half way through.
C16_AtomicTransitions ==
    /\ \A job_id \in 1..created :
          \/ job_id \in DOMAIN jobs
          \/ \E t \in Threads : /\ thr[t].pc \in {"acquire", "locked"}
                                /\ thr[t].op = "create_job" /\ thr[t].job.id = job_id
    /\ \A t \in Threads :
          "result" \in DOMAIN thr[t] => \A job \in thr[t].result \ {NoJob} : Whole(job)

\* a reader waits for the lock while the holder is half way through a transition
C16_Witness ==
    \E t, u \in Threads :
        /\ lock = u /\ At(u, "assign") /\ ~Whole(jobs[thr[u].job_id])
        /\ At(t, "acquire") /\ thr[t].op \in {"get_job", "list_jobs"}

\* ------------------------- two runs of upsert_partidos resolving the same entities
\* Each run resolves one record, a round-trip at a time, on the store both share:
\* country, league, season, home team, away team.
NRaceRuns == 2       \* runs of upsert_partidos at the same time

\* res.data of a select, were it always empty
Found_Never(rows, flt) == FALSE

\* "if res.data:" after a select by natural key
Found(rows, flt) == Select(rows, flt) # <<>>

\* the k-th lookup of the try block: table, memo key, select filter, row to insert
RaceRequest(k, p, ids) ==
    CASE k = 1 -> [t |-> "paises", key |-> p.pais_slug,
                   flt |-> [slug_flashscore |-> p.pais_slug],
                   newrow |-> [nombre |-> p.pais, slug_flashscore |-> p.pais_slug]]
      [] k = 2 -> [t |-> "ligas", key |-> <<ids.pais_id, Slugify(p.liga)>>,
                   flt |-> [slug_flashscore |-> Slugify(p.liga), pais_id |-> ids.pais_id],
                   newrow |-> LigaRow(ids.pais_id, Slugify(p.liga), p.liga)]
      [] k = 3 -> [t |-> "temporadas", key |-> <<ids.liga_id, p.temporada>>,
                   flt |-> [nombre_flashscore |-> p.temporada, liga_id |-> ids.liga_id],
                   newrow |-> [liga_id |-> ids.liga_id, nombre_flashscore |-> p.temporada,
                               nombre_display |-> p.temporada]
                              @@ TemporadaFechas(p.temporada)]
      [] k = 4 -> [t |-> "equipos", key |-> Slugify(p.local),
                   flt |-> [slug_flashscore |-> Slugify(p.local)],
                   newrow |-> [nombre |-> p.local, slug_flashscore |-> Slugify(p.local)]]
      [] k = 5 -> [t |-> "equipos", key |-> Slugify(p.visitante),
                   flt |-> [slug_flashscore |-> Slugify(p.visitante)],
                   newrow |-> [nombre |-> p.visitante,
                               slug_flashscore |-> Slugify(p.visitante)]]

LastLookup == 5
NoIds == [pais_id |-> NoInt, liga_id |-> NoInt, temporada_id |-> NoInt]
IdVar(k) == CASE k = 1 -> "pais_id" [] k = 2 -> "liga_id" [] k = 3 -> "temporada_id"
              [] OTHER -> "none"

\* a run's frame between two round-trips holds no store of its own
Detach(f) == [f EXCEPT !.db = EmptyStore]
Attach(f, db) == [f EXCEPT !.db = db]

\* the lookup returned id: the run keeps it and goes on to the next lookup
Resolved(run, f, id) ==
    [run EXCEPT !.f = Detach(f),
                !.ids = IF IdVar(run.k) \in DOMAIN @ THEN [@ EXCEPT ![IdVar(run.k)] = id] ELSE @,
                !.k = IF run.k = LastLookup THEN @ ELSE @ + 1,
                !.pc = IF run.k = LastLookup THEN "done" ELSE "select"]

RaceBegin ==
    /\ race.pc = "idle"
    /\ \E ps \in [1..NRaceRuns -> ValidScraped] :
          race' = [pc |-> "running", db |-> EmptyStore, log |-> <<>>,
                   run |-> [r \in 1..NRaceRuns |->
                               [pc |-> "select", k |-> 1, partido |-> ps[r], ids |-> NoIds,
                                saw |-> 0, f |-> Frame(EmptyStore, NoFault)]]]
    /\ UNCHANGED <<etlvars, jobvars, runvars, thrvars, scr, fun>>

\* memo hit, or the select by natural key: found, or not found as the table stands now
RaceSelect(r) ==
    /\ race.pc = "running" /\ race.run[r].pc = "select"
    /\ LET run == race.run[r]
           q == RaceRequest(run.k, run.partido, run.ids)
           f == Execute(Attach(run.f, race.db))
       IN  race' = [race EXCEPT !.run[r] =
              IF q.key \in DOMAIN run.f.cache[q.t]
              THEN Resolved(run, run.f, run.f.cache[q.t][q.key])
              ELSE IF Found(race.db[q.t], q.flt)
              THEN Resolved(run, Memo(f, q.t, q.key, Select(race.db[q.t], q.flt)[1].id).c,
                            Select(race.db[q.t], q.flt)[1].id)
              ELSE [run EXCEPT !.pc = "insert", !.f = Detach(f), !.saw = Len(race.db[q.t])]]
    /\ UNCHANGED <<etlvars, jobvars, runvars, thrvars, scr, fun>>

\* the insert that follows an empty select, on the table as it stands by then
RaceInsert(r) ==
    /\ race.pc = "running" /\ race.run[r].pc = "insert"
    /\ LET run == race.run[r]
           q == RaceRequest(run.k, run.partido, run.ids)
       IN  \E got \in {CreateRow(Execute(Attach(run.f, race.db)), q.t, q.key, q.newrow)} :
              race' = [race EXCEPT !.db = got.c.db,
                                   !.log = Append(@, [t |-> q.t, id |-> got.id, run |-> r,
                                                      saw |-> run.saw]),
                                   !.run[r] = Resolved(run, got.c, got.id)]
    /\ UNCHANGED <<etlvars, jobvars, runvars, thrvars, scr, fun>>

NextRace ==
    \/ RaceBegin
    \/ \E r \in 1..NRaceRuns : RaceSelect(r)
    \/ \E r \in 1..NRaceRuns : RaceInsert(r)

SpecRace == Init /\ [][NextRace]_vars

\* the natural key of an entity row, with the scope it is unique in
NaturalKey(t, row) ==
    CASE t = "ligas"      -> <<row.slug_flashscore, row.pais_id>>
      [] t = "temporadas" -> <<row.nombre_flashscore, row.liga_id>>
      [] t \in {"fase", "jornada"}    -> <<row.slug_flashscore, row.temporada_id>>
      [] t \in {"estados", "especial"} -> <<row.nombre>>
      [] OTHER            -> <<row.slug_flashscore>>

EntityTables == {"paises", "ligas", "temporadas", "equipos"}

Duplicates(db, t) ==
    { <<i, j>> \in (1..Len(db[t])) \X (1..Len(db[t])) :
         i < j /\ NaturalKey(t, db[t][i]) = NaturalKey(t, db[t][j]) }

\* the insert that made the row id of table t: which run, and the table size it had seen
InsertOf(t, id) == CHOOSE e \in Range(race.log) : e.t = t /\ e.id = id

\* C17: two rows with the same natural key in the same scope come from two runs, the
\* second of which had made its select before the first row was there; without such an
\* overlap a run finds the row and inserts nothing.
C17_RaceDuplicates ==
    race.pc = "running" =>
        \A t \in EntityTables : \A d \in Duplicates(race.db, t) :
            /\ InsertOf(t, d[1]).run # InsertOf(t, d[2]).run
            /\ InsertOf(t, d[2]).saw < d[1]

\* both runs are done and the store holds two leagues of one country with the same slug
\* (and so two seasons, one under each)
C17_Witness ==
    /\ race.pc = "running"
    /\ \A r \in 1..NRaceRuns : race.run[r].pc = "done"
    /\ Duplicates(race.db, "ligas") # {}
    /\ Duplicates(race.db, "paises") = {}
    /\ Duplicates(race.db, "equipos") # {}

\* ------------------------------------------- scrape_partidos_liga_sync
\* A URL is its path, segment by segment, and whether the path ends with "/";
\* the empty path with no "/" stands for an empty or missing url.
Url(path, slash) == [path |-> path, slash |-> slash]

Urls ==
    { Url(<<"futbol", "Colombia", "primera-a">>, TRUE),
      Url(<<"futbol", "colombia">>, FALSE),
      Url(<<"futbol">>, TRUE),
      Url(<<"futbol", "resultados">>, TRUE),
      Url(<<"futbol", "estadisticas", "primera-a">>, TRUE),
      Url(<<>>, FALSE) }

\* str.lower() on the segments that occur
Lower(seg) == IF seg = "Colombia" THEN "colombia" ELSE seg

\* the segment matches [a-z0-9-]+ whole
SlugChars(seg) == seg \in {"futbol", "colombia", "primera-a", "resultados", "estadisticas"}

ReservedSlugs == {"resultados", "estadisticas"}

\* where re.search(r'/futbol/([a-z0-9-]+)/', url.lower()) can match: a segment "futbol",
\* then a segment of slug characters, then a "/"
SlugMatches(url) ==
    { i \in 1..Len(url.path) :
         /\ Lower(url.path[i]) = "futbol"
         /\ i + 1 <= Len(url.path)
         /\ SlugChars(Lower(url.path[i + 1]))
         /\ (i + 1 < Len(url.path) \/ url.slash) }

FirstMatch(url) == CHOOSE i \in SlugMatches(url) : \A j \in SlugMatches(url) : i <= j

Slug(slug) == [exc |-> None, slug |-> slug]
NoSlugFound == [exc |-> "ValueError", slug |-> None]

\* the extraction, were the reserved words taken for a country
extract_country_slug_from_url_AnySlug(url) ==
    IF url.path = <<>> THEN NoSlugFound
    ELSE IF SlugMatches(url) = {} THEN NoSlugFound
    ELSE Slug(Lower(url.path[FirstMatch(url) + 1]))

extract_country_slug_from_url(url) ==
    IF url.path = <<>> THEN NoSlugFound
    ELSE IF SlugMatches(url) = {} THEN NoSlugFound
    ELSE IF Lower(url.path[FirstMatch(url) + 1]) \in ReservedSlugs THEN NoSlugFound
    ELSE Slug(Lower(url.path[FirstMatch(url) + 1]))

\* the score texts a match block can show (safe_text_sync hands them over trimmed);
\* "U+00B2" is the one-character text SUPERSCRIPT TWO
ScorePairs == { <<"1", "1">>, <<"U+00B2", "1">>, <<"-", "-">>, <<"1", "-">>, <<"", "">> }

\* str.strip, "-" in s, str.isdigit and int() on those texts and on "2"
Strip(text) == text
HasDash(text) == text = "-"
IsDigit(text) == text \in {"1", "2", "U+00B2"}
ParseInt(text) == CASE text = "1" -> 1 [] text = "2" -> 2 [] OTHER -> NoInt

_is_final_score(home_score, away_score) ==
    IF home_score = "" \/ away_score = "" THEN FALSE
    ELSE IF HasDash(Strip(home_score)) \/ HasDash(Strip(away_score)) THEN FALSE
    ELSE IsDigit(Strip(home_score)) /\ IsDigit(Strip(away_score))

\* try: int(...), int(...) except: both None
Goals(home_score, away_score) ==
    IF ParseInt(home_score) = NoInt \/ ParseInt(away_score) = NoInt
    THEN [goles_local |-> NoInt, goles_visitante |-> NoInt]
    ELSE [goles_local |-> ParseInt(home_score), goles_visitante |-> ParseInt(away_score)]

max_intentos == 1    \* "load more" clicks at most; 100 in flashscore_adapter.py:555, scaled down
MaxVisible == 1      \* match blocks the page has to show, "load more" included
MaxExtra == 2        \* header and round blocks of the list

\* competicion, jornada and partidos of one extraction, and whether an exception
\* has left its loop
Fold == [competicion |-> None, jornada |-> None, partidos |-> <<>>, raised |-> FALSE]

In(pc) == scr.pc = pc
Step(next) == scr' = next @@ scr
OutsideScrape == <<etlvars, jobvars, runvars, thrvars, race, fun>>

\* the call, up to the try block: the browser is launched, or the launch raises
ScrBegin ==
    /\ In("idle")
    /\ \E url \in Urls, only_finished \in BOOLEAN, launched \in BOOLEAN :
          scr' = [pc |-> IF launched THEN "slug" ELSE "raised",
                  url |-> url, only_finished |-> only_finished, launched |-> launched,
                  redirected |-> FALSE, failed |-> None,
                  boton_count |-> 0, visible |-> 0, errors |-> 0, why |-> None,
                  total |-> 0, i |-> 0, seen |-> 0, blocks |-> <<>>,
                  competicion |-> None, jornada |-> None, partidos |-> <<>>,
                  result |-> <<>>, co |-> Fold, co_result |-> <<>>]
    /\ UNCHANGED OutsideScrape

\* any exception in the try block: its outer except clause takes over
Abort(at) == Step([pc |-> "except", failed |-> at])

\* pais_slug = extract_country_slug_from_url(url)
ScrSlug ==
    /\ In("slug")
    /\ IF extract_country_slug_from_url(scr.url).exc # None THEN Abort("slug")
       ELSE Step([pc |-> "goto"])
    /\ UNCHANGED OutsideScrape

\* page.goto(target_url, ...): the page loads, on the results or on the fixtures, or not
ScrGoto ==
    /\ In("goto")
    /\ \E loaded \in BOOLEAN, fixtures \in BOOLEAN, visible \in 0..MaxVisible :
          IF ~loaded THEN Abort("goto")
          ELSE IF scr.only_finished /\ fixtures THEN Step([pc |-> "goto_results"])
          ELSE Step([pc |-> "paginate", visible |-> visible])
    /\ UNCHANGED OutsideScrape

\* page.goto(redirected, ...), when the first landed on /partidos/
ScrGotoResults ==
    /\ In("goto_results")
    /\ \E loaded \in BOOLEAN, visible \in 0..MaxVisible :
          IF ~loaded THEN Abort("goto")
          ELSE Step([pc |-> "paginate", visible |-> visible, redirected |-> TRUE])
    /\ UNCHANGED OutsideScrape

\* the except clause of the click, were it to go on with the loop
AfterClickError_Continue(why) == [pc |-> "paginate", errors |-> scr.errors + 1]

\* except Exception: logger.error(...); break
AfterClickError(why) == [pc |-> "walk", why |-> why, errors |-> scr.errors + 1]

\* one turn of "while boton_count < max_intentos", the page behaving in any way
ScrPaginate ==
    /\ In("paginate")
    /\ IF scr.boton_count >= max_intentos THEN Step([pc |-> "walk", why |-> "limit"])
       ELSE \E page \in {"count_raises", "no_button", "click_raises", "timeout"}
                         \cup (IF scr.visible < MaxVisible THEN {"more"} ELSE {}) :
               CASE page = "count_raises" -> Abort("count")
                 [] page = "no_button"    -> Step([pc |-> "walk", why |-> "no_button"])
                 [] page = "click_raises" -> Step(AfterClickError("click"))
                 [] page = "more"         -> Step([boton_count |-> scr.boton_count + 1,
                                                   visible |-> scr.visible + 1])
                 [] page = "timeout"      -> Step([boton_count |-> scr.boton_count + 1]
                                                  @@ AfterClickError("wait"))
    /\ UNCHANGED OutsideScrape

\* total = items.count()
ScrTotal ==
    /\ In("walk")
    /\ \E counted \in BOOLEAN, extra \in 0..MaxExtra :
          IF ~counted THEN Abort("items")
          ELSE Step([pc |-> "item", total |-> scr.visible + extra, i |-> 0])
    /\ UNCHANGED OutsideScrape

\* the blocks of the list: a header with its title, a round marker with its text, a
\* match with its scores and its home team, or a block of no class the walk knows;
\* Missing is the text of an element that is not there
Block(clases, text, home_score, away_score, local, raises) ==
    [clases |-> clases, text |-> text, home_score |-> home_score,
     away_score |-> away_score, local |-> local, raises |-> raises]
NoMatch(clases, text) == Block(clases, text, Missing, Missing, Missing, FALSE)

HeaderBlocks == { NoMatch("headerLeague__wrapper", t) : t \in {"Apertura", Missing} }
RoundBlocks == { NoMatch("event__round", "Jornada 1") }
OtherBlocks == { NoMatch("", Missing) }
MatchBlocks ==
    { Block("event__match", Missing, s[1], s[2], l, r) :
         s \in ScorePairs, l \in {"Team A", Missing}, r \in BOOLEAN }

\* the record a finished match block gives; at is its place in the list
Emitted(w, b, at) ==
    [fase |-> w.competicion, jornada |-> w.jornada, local |-> b.local,
     home_score |-> b.home_score, away_score |-> b.away_score, at |-> at]
    @@ Goals(b.home_score, b.away_score)

\* the header branch, were jornada kept across headers
Header_KeepsRound(w, text) == [w EXCEPT !.competicion = text]

\* competicion = <title>; jornada = None
Header(w, text) == [w EXCEPT !.competicion = text, !.jornada = None]

\* the match branch: the texts are read, the filter applied, the record appended
Match(w, b, at) ==
    IF b.raises \/ ~_is_final_score(b.home_score, b.away_score) THEN w
    ELSE [w EXCEPT !.partidos = Append(@, Emitted(w, b, at))]

\* one turn of "for i in range(total)" in scrape_partidos_liga_sync: every text is
\* read with safe_text_sync, which gives "" for an element that is not there
TurnSync(w, b, at) ==
    CASE b.clases = "headerLeague__wrapper" -> Header(w, b.text)
      [] b.clases = "event__round"          -> [w EXCEPT !.jornada = b.text]
      [] b.clases = "event__match"          -> Match(w, b, at)
      [] OTHER                              -> w

\* the same turn in scrape_partidos_liga: the header title and the team names are read
\* with inner_text, which raises for an element that is not there; in the header
\* branch the exception leaves the loop, in the match branch it skips the block
TurnAsync(w, b, at) ==
    CASE w.raised                           -> w
      [] b.clases = "headerLeague__wrapper" ->
            IF b.text = Missing THEN [w EXCEPT !.raised = TRUE] ELSE Header(w, b.text)
      [] b.clases = "event__round"          -> [w EXCEPT !.jornada = b.text]
      [] b.clases = "event__match"          ->
            IF b.local = Missing THEN w ELSE Match(w, b, at)
      [] OTHER                              -> w

\* the blocks the next one can be: the list holds the visible match blocks and the
\* other blocks, in any order
ItemsLeft ==
    (IF scr.seen < scr.visible THEN MatchBlocks ELSE {})
    \cup (IF scr.i - scr.seen < scr.total - scr.visible
          THEN HeaderBlocks \cup RoundBlocks \cup OtherBlocks ELSE {})

\* one turn of the walk, or item.get_attribute("class") raising; co is the asynchronous
\* extractor walking the same list
ScrItem ==
    /\ In("item") /\ scr.i < scr.total
    /\ \/ Step([pc |-> "except", failed |-> "item", co |-> [scr.co EXCEPT !.raised = TRUE]])
       \/ \E b \in ItemsLeft :
             Step([i |-> scr.i + 1,
                   seen |-> IF b.clases = "event__match" THEN scr.seen + 1 ELSE scr.seen,
                   blocks |-> Append(scr.blocks, [clases |-> b.clases, text |-> b.text]),
                   co |-> TurnAsync(scr.co, b, scr.i + 1)]
                  @@ [k \in {"competicion", "jornada", "partidos"} |->
                         TurnSync([k2 \in DOMAIN Fold |->
                                     IF k2 = "raised" THEN FALSE ELSE scr[k2]],
                                  b, scr.i + 1)[k]])
    /\ UNCHANGED OutsideScrape

\* return partidos
ScrReturn ==
    /\ In("item") /\ scr.i = scr.total
    /\ Step([pc |-> "returned", result |-> scr.partidos,
              co_result |-> IF scr.co.raised THEN <<>> ELSE scr.co.partidos])
    /\ UNCHANGED OutsideScrape

\* except Exception: logger.error(...); return []
ScrExcept ==
    /\ In("except")
    /\ Step([pc |-> "returned", result |-> <<>>, co_result |-> <<>>])
    /\ UNCHANGED OutsideScrape

\* the call is over, the next one starts from nothing
ScrDone ==
    /\ In("returned") \/ In("raised")
    /\ scr' = Idle
    /\ UNCHANGED OutsideScrape

NextScrape ==
    \/ ScrBegin \/ ScrSlug \/ ScrGoto \/ ScrGotoResults \/ ScrPaginate
    \/ ScrTotal \/ ScrItem \/ ScrReturn \/ ScrExcept \/ ScrDone

SpecScrape == Init /\ [][NextScrape]_vars

\* the extraction up to the first turn of the walk
NextLoop ==
    \/ ScrBegin \/ ScrSlug \/ ScrGoto \/ ScrGotoResults \/ ScrPaginate
    \/ ScrTotal \/ ScrReturn \/ ScrExcept \/ ScrDone

\* every statement of it is run in the end
SpecScrapeLive == Init /\ [][NextLoop]_vars /\ WF_vars(NextLoop)

Launched == ~In("idle") /\ scr.launched
Underivable(url) ==
    \/ SlugMatches(url) = {}
    \/ Lower(url.path[FirstMatch(url) + 1]) \in ReservedSlugs
AbortedWhole == scr.partidos = <<>> /\ scr.result = <<>>

\* C18: every record the league extraction emits passed the finalized-score predicate and
\* has both goal fields numeric, whatever only_finished is; ("2","1") is finalized,
\* ("-","-") and ("2","-") are not
C18_EmittedNumeric ==
    /\ _is_final_score("2", "1")
    /\ ~_is_final_score("-", "-")
    /\ ~_is_final_score("2", "-")
    /\ Launched =>
          \A k \in 1..Len(scr.partidos) :
             /\ _is_final_score(scr.partidos[k].home_score, scr.partidos[k].away_score)
             /\ scr.partidos[k].goles_local # NoInt
             /\ scr.partidos[k].goles_visitante # NoInt

\* C19: once the browser is up, a URL with no country slug (segment absent or reserved) or a
\* failed page navigation ends the extraction as a whole: no record is collected, the
\* call returns an empty list and raises nothing
C19_AbortsWhole ==
    Launched =>
       /\ ~In("raised")
       /\ Underivable(scr.url) => In("slug") \/ In("except") \/ In("returned")
       /\ Underivable(scr.url) \/ scr.failed = "goto" => AbortedWhole
       /\ scr.failed = "goto" => In("except") \/ In("returned")

C19_Witness ==
    /\ Launched /\ In("returned") /\ scr.result = <<>>
    /\ Underivable(scr.url) /\ scr.failed = "slug"

Stops(why) == why \in {"limit", "no_button", "click", "wait"}

Before(blocks, at, clases) == { j \in 1..(at - 1) : blocks[j].clases = clases }
Latest(S) == CHOOSE j \in S : \A k \in S : k <= j
PhaseAt(blocks, at) ==
    IF Before(blocks, at, "headerLeague__wrapper") = {} THEN None
    ELSE blocks[Latest(Before(blocks, at, "headerLeague__wrapper"))].text
RoundsSinceHeader(blocks, at) ==
    { j \in Before(blocks, at, "event__round") :
         \A h \in Before(blocks, at, "headerLeague__wrapper") : h < j }
MatchdayAt(blocks, at) ==
    IF RoundsSinceHeader(blocks, at) = {} THEN None
    ELSE blocks[Latest(RoundsSinceHeader(blocks, at))].text
Carries(partidos, blocks) ==
    \A k \in 1..Len(partidos) :
       /\ partidos[k].fase = PhaseAt(blocks, partidos[k].at)
       /\ partidos[k].jornada = MatchdayAt(blocks, partidos[k].at)

\* C21: every match the walk emits, in the synchronous and in the asynchronous extractor,
\* carries the title of the latest header before it (none without a header) and the
\* text of the latest round marker after that header (none without one); each call
\* starts with both empty
C21_FoldState ==
    Launched =>
       /\ Carries(scr.partidos, scr.blocks)
       /\ Carries(scr.co.partidos, scr.blocks)
       /\ In("item") /\ scr.i = 0 =>
             /\ scr.competicion = None /\ scr.jornada = None
             /\ scr.partidos = <<>> /\ scr.co = Fold

C21_Witness ==
    /\ Launched /\ In("returned") /\ Len(scr.result) = 1
    /\ scr.result[1].fase = "Apertura" /\ scr.result[1].jornada = "Jornada 1"
    /\ scr.co_result = scr.result

\* C28: the asynchronous and the synchronous extractor, walking the same list with the
\* same elements present or missing, return the same records
C28_SameRecords ==
    Launched /\ In("returned") => scr.co_result = scr.result

\* ------------------------------------------------ parse_flashscore_fecha alone
\* the date texts "DD.MM. HH:MM" and "DD.MM.YYYY HH:MM" and the season labels handed over
Fechas ==
    { [day |-> d, month |-> m, year |-> y, hour |-> 18, minute |-> 20] :
         d \in {1, 31}, m \in 1..12, y \in {0, 2023} }
Temporadas == {"2024/2025", "2024/25", "1999/00", "2025", "Apertura", None}

ParseFecha ==
    /\ fun = Idle
    /\ \E fecha_raw \in Fechas, temporada \in Temporadas :
          fun' = [pc |-> "parsed", fecha_raw |-> fecha_raw, temporada |-> temporada,
                  result |-> parse_flashscore_fecha(fecha_raw, temporada)]
    /\ UNCHANGED <<etlvars, jobvars, runvars, thrvars, race, scr>>

FechaDone ==
    /\ fun # Idle
    /\ fun' = Idle
    /\ UNCHANGED <<etlvars, jobvars, runvars, thrvars, race, scr>>

NextFecha == ParseFecha \/ FechaDone

SpecFecha == Init /\ [][NextFecha]_vars

Parsed == fun # Idle /\ fun.result # <<>>
FirstYear(temporada) ==
    CASE temporada = "2024/2025" -> 2024 [] temporada = "2024/25" -> 2024
      [] temporada = "1999/00" -> 1999 [] temporada = "2025" -> 2025
SecondYear(temporada) ==
    CASE temporada = "2024/2025" -> 2025 [] temporada = "2024/25" -> 2025
      [] temporada = "1999/00" -> 2000 [] temporada = "2025" -> 2025

RECURSIVE Flatten(_)
Flatten(chunks) == IF chunks = <<>> THEN <<>> ELSE Head(chunks) \o Flatten(Tail(chunks))
WellChunked(seq, size) ==
    /\ Flatten(_chunked(seq, size)) = seq
    /\ \A k \in 1..Len(_chunked(seq, size)) :
          _chunked(seq, size)[k] # <<>> /\ Len(_chunked(seq, size)[k]) <= size
Completed(call) == call.called /\ call.outcome = "return" /\ call.caught = None /\ ~call.early

\* C23: the links of the valid records, the rows to insert and the rows to update of a
\* call are each cut into chunks that are non-empty, no longer than the bound, and that
\* put end to end give the sequence back; in a call that no exception ends, every link
\* was looked up, every row to insert was inserted and counted once, every row to
\* update was counted once, and no row is in both lists
C23_Chunked ==
    last.called /\ ~last.early /\ last.creds =>
       /\ WellChunked(LinksOf(last.valid_partidos), LinksChunk)
       /\ WellChunked(last.rows_insert, WriteChunk)
       /\ WellChunked(last.rows_upsert, WriteChunk)
       /\ Completed(last) =>
             /\ last.existing_links =
                   Range(LinksOf(last.valid_partidos)) \cap StoredLinks(last.before)
             /\ last.insertados = Len(last.rows_insert)
             /\ last.actualizados = Len(last.rows_upsert)
             /\ Len(store.partidos) = Len(last.before.partidos) + Len(last.rows_insert)
             /\ Range(RowLinks(last.rows_insert)) \cap Range(RowLinks(last.rows_upsert)) = {}

\* two lookups of links, one insert and two updates in one call
C23_Witness ==
    /\ Completed(last) /\ Len(_chunked(LinksOf(last.valid_partidos), LinksChunk)) = 2
    /\ last.insertados = 1 /\ last.actualizados = 2

\* the natural keys, by name, that the valid records of a call ask for in table t
Asked(call, t) ==
    LET P == Range(call.valid_partidos)
        liga(p) == <<p.pais_slug, Slugify(p.liga)>>
        temporada(p) == <<p.pais_slug, Slugify(p.liga), p.temporada>>
    IN  CASE t = "paises"     -> { p.pais_slug : p \in P }
          [] t = "ligas"      -> { liga(p) : p \in P }
          [] t = "temporadas" -> { temporada(p) : p \in P }
          [] t = "equipos"    -> { Slugify(p.local) : p \in P } \cup { Slugify(p.visitante) : p \in P }
          [] t = "estados"    -> { EstadoNombre(p) : p \in P }
          [] t = "fase"       -> { <<temporada(p), Slugify(p.fase)>> : p \in { q \in P : q.fase # None } }
          [] t = "jornada"    -> { <<temporada(p), Slugify(p.jornada)>> : p \in { q \in P : q.jornada # None } }
          [] t = "especial"   -> { p.especial : p \in { q \in P : q.especial # None } }
Preloaded(call) == { e \in {"Finalizado", "Programado"} : Select(call.before.estados, [nombre |-> e]) # <<>> }
RECURSIVE Sum(_, _)
Sum(S, f) == IF S = {} THEN 0 ELSE LET x == CHOOSE y \in S : TRUE IN f[x] + Sum(S \ {x}, f)
Memos == Tables \ {"partidos"}
Created(call, db, t) == Len(db[t]) - Len(call.before[t])
Lookups(call) ==
    Sum(Memos, [t \in Memos |->
            Cardinality(Asked(call, t) \ (IF t = "estados" THEN Preloaded(call) ELSE {}))])
Inserts(call, db) == Sum(Memos, [t \in Memos |-> Created(call, db, t)])

\* the keys a memo holds when the call ends, against the keys its records asked for
Filled(call, t) == Cardinality(DOMAIN call.cache[t])
OnlyAsked(call, t) == Filled(call, t) = Cardinality(Asked(call, t))

\* C24 (as claimed): every memo is filled by get-or-create alone, so that when a
\* call ends each memo holds the keys its records asked for and no other
C24_LazyMemo ==
    Completed(last) =>
       \A t \in Memos :
          /\ OnlyAsked(last, t)
          /\ t = "estados" => DOMAIN last.cache[t] = Asked(last, t)

\* C24: in a call, every natural key is looked up once at most and inserted once at
\* most, however many records ask for it: the round-trips of a call that no exception
\* ends are the two status preloads, the link lookups, one select per key asked for
\* and not preloaded, one insert per row created and the write chunks; the memos
\* start empty in every call, the status memo is filled first with the statuses the
\* store already has, and every other memo holds the keys its records asked for;
\* no table holds two rows with one natural key
C24_MemoPerCall ==
    last.called =>
       /\ \A t \in Memos :
             /\ Duplicates(store, t) = {}
             /\ Created(last, store, t) <= Cardinality(Asked(last, t))
       /\ Completed(last) =>
             /\ last.n = 2 + Len(_chunked(LinksOf(last.valid_partidos), LinksChunk))
                          + Lookups(last) + Inserts(last, store)
                          + Len(_chunked(last.rows_insert, WriteChunk))
                          + Len(_chunked(last.rows_upsert, WriteChunk))
             /\ \A t \in Memos \ {"estados"} : OnlyAsked(last, t)
             /\ DOMAIN last.cache.estados = Asked(last, "estados") \cup Preloaded(last)

\* a second call on the same batch of two records that share their entities, the
\* store holding a status that neither record has
C24_Witness ==
    /\ Completed(last) /\ last.again /\ Len(last.valid_partidos) = 2
    /\ Inserts(last, store) = 0 /\ Lookups(last) >= 4
    /\ Len(store.paises) = 1
    /\ Preloaded(last) \ Asked(last, "estados") # {}

Ids(db, t) == { db[t][i].id : i \in 1..Len(db[t]) }
Rows(db, t) == { db[t][i] : i \in 1..Len(db[t]) }
\* the optional reference x of a Match row to table t, scoped to the row's season
ScopedRef(db, row, t, x) ==
    x # NoInt => \E r \in Rows(db, t) : r.id = x /\ r.temporada_id = row.temporada_id

\* C25: every stored row refers to parents that are stored: a League to a Country, a
\* Season to a League, a Phase or a Matchday to a Season, a Match to a Season, two
\* Teams and a Status, and to a Phase and a Matchday of its own Season and a
\* SpecialTag when it has them; the rows a call is about to write refer to stored rows
C25_ParentsExist ==
    /\ \A r \in Rows(store, "ligas") : r.pais_id \in Ids(store, "paises")
    /\ \A r \in Rows(store, "temporadas") : r.liga_id \in Ids(store, "ligas")
    /\ \A t \in {"fase", "jornada"} :
          \A r \in Rows(store, t) : r.temporada_id \in Ids(store, "temporadas")
    /\ \A r \in Rows(store, "partidos") \cup
                (IF last.called THEN Range(last.rows_insert) \cup Range(last.rows_upsert)
                 ELSE {}) :
          /\ r.temporada_id \in Ids(store, "temporadas")
          /\ r.equipo_local_id \in Ids(store, "equipos")
          /\ r.equipo_visitante_id \in Ids(store, "equipos")
          /\ r.estado_id \in Ids(store, "estados")
          /\ ScopedRef(store, r, "fase", r.fase_id)
          /\ ScopedRef(store, r, "jornada", r.jornada_id)
          /\ r.especial_id \in Ids(store, "especial") \cup {NoInt}

\* two stored matches, one with a phase, a matchday and a special tag, one without
C25_Witness ==
    /\ Completed(last) /\ Len(store.partidos) = 2
    /\ \E r \in Rows(store, "partidos") :
          r.fase_id # NoInt /\ r.jornada_id # NoInt /\ r.especial_id # NoInt
    /\ \E r \in Rows(store, "partidos") : r.fase_id = NoInt

SameLink(rows) == { <<i, j>> \in (1..Len(rows)) \X (1..Len(rows)) : i < j /\ rows[i].link = rows[j].link }

SkippedAt(call) ==
    { i \in 1..Len(call.valid_partidos) :
         /\ call.valid_partidos[i].link \in StoredLinks(call.before)
         /\ ~is_final(call.valid_partidos[i]) }
DroppedAt(call) == { i \in 1..Len(call.dispo) : call.dispo[i] = "error" }
LoopEnded(call) ==
    call.called /\ ~call.early /\ call.caught = None /\ call.valid_partidos # <<>>
NothingPersisted(call) ==
    LoopEnded(call) /\ SkippedAt(call) \cup DroppedAt(call) = 1..Len(call.valid_partidos)
KeepsRows(old, new) == Len(new) >= Len(old) /\ SubSeq(new, 1, Len(old)) = old

\* C27 (as claimed): a call all of whose records are skipped by the no-clobber rule or
\* dropped by an exception of their own leaves every table of the store as it was
C27_StoreUnchanged == NothingPersisted(last) => store = last.before

\* C27: a record that is skipped or dropped puts no row among the rows to insert or
\* to upsert, and no call changes or removes a Country, League, Season, Team, Status,
\* Phase, Matchday or SpecialTag row; a call all of whose records are skipped or
\* dropped leaves the Match table as it was and reports no insert, whatever rows of
\* the other tables the records resolved before the skip or the exception
C27_NoMatchWritten ==
    /\ last.called => \A t \in Memos : KeepsRows(last.before[t], store[t])
    /\ LoopEnded(last) =>
          Len(last.rows_insert) + Len(last.rows_upsert)
             = Len(last.valid_partidos) - Cardinality(SkippedAt(last) \cup DroppedAt(last))
    /\ NothingPersisted(last) =>
          /\ store.partidos = last.before.partidos
          /\ last.outcome = "return" /\ last.ret = 0 /\ last.actualizados = 0

\* a call with one record skipped and one dropped that left new rows behind
C27_Witness ==
    /\ NothingPersisted(last)
    /\ SkippedAt(last) # {} /\ DroppedAt(last) # {}
    /\ store # last.before

JobOf(r) == jobs[runs[r].job_id]
TrackedRun(r) == runs[r].job_id \in DOMAIN jobs
DoneRuns == { r \in 1..Len(runs) : TrackedRun(r) /\ JobOf(r).status = "done" }

\* C29 (as claimed): the partidos_nuevos of a job that is done is the number of Match
\* rows its run inserted into the store, for the background task and for the manual
\* endpoint alike
C29_CountsInserts ==
    \A r \in DoneRuns : heap[JobOf(r).metrics].partidos_nuevos = runs[r].inserted

\* C30: the response of /scraping/league shows the job pending, and a job that is
\* pending or running is later done or failed, or has been cleared
C30_JobSettles ==
    /\ [](\A r \in 1..Len(runs) : runs[r].via = "league" => runs[r].response = "pending")
    /\ \A job_id \in 1..MaxRuns :
          (job_id \in DOMAIN jobs /\ jobs[job_id].status \in {"pending", "running"})
             ~> (job_id \notin DOMAIN jobs \/ jobs[job_id].status \in {"done", "failed"})

\* a job of /scraping/league, answered pending and never cleared, that is done
C30_Witness ==
    /\ nclears = 0 /\ Len(runs) = 1
    /\ runs[1].via = "league" /\ runs[1].response = "pending"
    /\ runs[1].pc = "returned" /\ TrackedRun(1) /\ JobOf(1).status = "done"
    /\ runs[1].inserted = 1
====
